---- MODULE Spec2Model ----
(***************************************************************************)
(* Model of the OpenRCT2 stream and archive layer:                         *)
(*   core/FileStream.hpp  FileStream over stdio or over PhysicsFS          *)
(*   core/Zip.cpp         ZipArchive over libzip                           *)
(*   platform/PhysFs.cpp  FileAudioSource, the streaming WAV reader        *)
(*                                                                         *)
(* ENABLE_PHYSFS is a build switch: the variable fs.backend records which  *)
(* of the two builds of FileStream is running; fsPeer is a second stream,  *)
(* used where the two builds are run side by side.  The C library, PhysicsFS   *)
(* and libzip are modelled by their documented behaviour at the places the *)
(* source calls them.                                                      *)
(*                                                                         *)
(* Integer widths are scaled down: a 64-bit integer of the source has      *)
(* Bits64 bits here and a 32-bit integer Bits32 bits, so that wrap-around  *)
(* happens at values a finite check reaches.                               *)
(***************************************************************************)
EXTENDS Integers, Sequences, FiniteSets, TLC

VARIABLES fs, fsLast, fsPeer, zip, zipLast, zipLog, wav, wavLast

vars == <<fs, fsLast, fsPeer, zip, zipLast, zipLog, wav, wavLast>>

fsVars == <<fs, fsLast, fsPeer>>

zipVars == <<zip, zipLast, zipLog>>

wavVars == <<wav, wavLast>>

(***************************************************************************)
(* Bounds of the model                                                     *)
(***************************************************************************)
Bits64 == 3
Bits32 == 2
MaxLen == 2
MaxInitLen == 1
MaxPos == 3
MaxOff == 1
MaxHandles == 5

Min(a, b) == IF a < b THEN a ELSE b
Max(a, b) == IF a > b THEN a ELSE b

Pow2(n) == 2 ^ n

\* conversion to uint64_t / size_t
ToU64(x) == x % Pow2(Bits64)

\* conversion to int64_t / off_t / PHYSFS_sint64
ToS64(x) ==
    LET u == x % Pow2(Bits64)
    IN  IF u >= Pow2(Bits64 - 1) THEN u - Pow2(Bits64) ELSE u

\* conversion to PHYSFS_sint32
ToS32(x) ==
    LET u == x % Pow2(Bits32)
    IN  IF u >= Pow2(Bits32 - 1) THEN u - Pow2(Bits32) ELSE u

U64Max == Pow2(Bits64) - 1
S64Max == Pow2(Bits64 - 1) - 1
S32Max == Pow2(Bits32 - 1) - 1

\* the payload bytes told apart (0 stands for a zero byte of a gap)
Bytes == {1, 2}

SeqsUpTo(S, n) == UNION { [1 .. k -> S] : k \in 0 .. n }

Buffers == SeqsUpTo(Bytes, MaxLen)

\* enum { FILE_MODE_OPEN, FILE_MODE_WRITE, FILE_MODE_APPEND }
FILE_MODE_OPEN == "FILE_MODE_OPEN"
FILE_MODE_WRITE == "FILE_MODE_WRITE"
FILE_MODE_APPEND == "FILE_MODE_APPEND"
FileModes == {FILE_MODE_OPEN, FILE_MODE_WRITE, FILE_MODE_APPEND}

STREAM_SEEK_BEGIN == "STREAM_SEEK_BEGIN"
STREAM_SEEK_CURRENT == "STREAM_SEEK_CURRENT"
STREAM_SEEK_END == "STREAM_SEEK_END"
Origins == {STREAM_SEEK_BEGIN, STREAM_SEEK_CURRENT, STREAM_SEEK_END}

Backends == {"stdio", "physfs"}

(***************************************************************************)
(* The backend: one resource (disk, its stored bytes) and the table of the *)
(* handles opened on it.  A handle is [mode, pos, dir, closed]: closed     *)
(* counts the close calls it received, dir is the direction of the last    *)
(* transfer on a stdio update stream ("none" after a positioning call).    *)
(***************************************************************************)

\* the bytes of the resource after n bytes buf are stored at offset pos
\* (a gap between the old end and pos reads as zero bytes)
StoreAt(disk, pos, buf) ==
    IF buf = <<>> THEN disk
    ELSE LET newLen == Max(Len(disk), pos + Len(buf))
         IN  [i \in 1 .. newLen |->
                 IF i > pos /\ i <= pos + Len(buf) THEN buf[i - pos]
                 ELSE IF i <= Len(disk) THEN disk[i] ELSE 0]

\* the k bytes (at most) stored from offset pos on
BytesAt(disk, pos, k) ==
    LET avail == Max(0, Len(disk) - pos)
        m == Min(k, avail)
    IN  SubSeq(disk, pos + 1, pos + m)

Live(w, h) == h \in 1 .. Len(w.handles) /\ w.handles[h].closed = 0

\* fopen / PHYSFS_openRead / PHYSFS_openWrite / PHYSFS_openAppend:
\* "w+b" and "write" truncate the resource, the others keep it; the new
\* handle becomes _file
OpenHandle(w, mode) ==
    LET truncates == mode \in {"w+b", "write"}
        disk2 == IF truncates THEN <<>> ELSE w.disk
        h == [mode |-> mode,
              pos |-> IF mode = "append" THEN Len(disk2) ELSE 0,
              dir |-> "none",
              closed |-> 0]
    IN  [w EXCEPT !.disk = disk2,
                  !.handles = Append(@, h),
                  !.file = Len(w.handles) + 1]

\* fclose / PHYSFS_close on handle h
CloseHandle(w, h) ==
    IF h \in 1 .. Len(w.handles)
    THEN [w EXCEPT !.handles[h].closed = @ + 1,
                   !.handles[h].pos = 0,
                   !.handles[h].dir = "none",
                   !.misuse = @ \/ ~Live(w, h)]
    ELSE [w EXCEPT !.misuse = TRUE]

\* ftello64 / PHYSFS_tell on _file
Tell(w) == IF Live(w, w.file) THEN w.handles[w.file].pos ELSE 0

\* PHYSFS_fileLength on _file
FileLength(w) == Len(w.disk)

\* marks a call on a handle that is not open
Touch(w) == [w EXCEPT !.misuse = @ \/ ~Live(w, w.file)]

\* PHYSFS_seek(_file, pos) with pos a PHYSFS_uint64: the native seek takes
\* the offset as a signed off_t and rejects a negative one; a seek past the
\* end of a native file is accepted
PHYSFS_seek(w, upos) ==
    IF ~Live(w, w.file) THEN Touch(w)
    ELSE IF ToS64(upos) < 0 THEN w
    ELSE [w EXCEPT !.handles[w.file].pos = upos]

\* fseeko64(_file, offset, whence)
fseeko64(w, offset, origin) ==
    IF ~Live(w, w.file) THEN Touch(w)
    ELSE LET base == CASE origin = STREAM_SEEK_BEGIN -> 0
                       [] origin = STREAM_SEEK_CURRENT -> w.handles[w.file].pos
                       [] origin = STREAM_SEEK_END -> Len(w.disk)
             target == base + offset
         IN  IF target < 0 \/ target > S64Max THEN w
             ELSE [w EXCEPT !.handles[w.file].pos = target,
                            !.handles[w.file].dir = "none"]

\* PHYSFS_readBytes(_file, buffer, len): [w, ret, data]; -1 on a handle
\* opened for writing, otherwise the count read (short at end of file)
PHYSFS_readBytes(w, len) ==
    IF ~Live(w, w.file) THEN [w |-> Touch(w), ret |-> -1, data |-> <<>>]
    ELSE IF w.handles[w.file].mode # "read"
    THEN [w |-> w, ret |-> -1, data |-> <<>>]
    ELSE LET pos == w.handles[w.file].pos
             got == BytesAt(w.disk, pos, len)
         IN  [w |-> [w EXCEPT !.handles[w.file].pos = pos + Len(got)],
              ret |-> Len(got), data |-> got]

\* PHYSFS_writeBytes(_file, buffer, len): [w, ret]; -1 on a handle opened
\* for reading
PHYSFS_writeBytes(w, buf) ==
    IF ~Live(w, w.file) THEN [w |-> Touch(w), ret |-> -1]
    ELSE IF w.handles[w.file].mode = "read" THEN [w |-> w, ret |-> -1]
    ELSE LET pos == w.handles[w.file].pos
         IN  [w |-> [w EXCEPT !.disk = StoreAt(@, pos, buf),
                              !.handles[w.file].pos = pos + Len(buf)],
              ret |-> Len(buf)]

\* fread(buffer, size, nmemb, _file) asking for total = size * nmemb bytes:
\* the set of [w, got] the call can produce, got the bytes stored into
\* buffer.  A stream opened "a" cannot be read.  Input directly after
\* output on an update stream, with no positioning call between, is
\* undefined: the read happens or it fails.
fread(w, total) ==
    IF ~Live(w, w.file) THEN {[w |-> Touch(w), got |-> <<>>]}
    ELSE LET h == w.handles[w.file]
             got == BytesAt(w.disk, h.pos, total)
             atEnd == Len(got) < total
             done == [w |-> [w EXCEPT !.handles[w.file].pos = h.pos + Len(got),
                                      !.handles[w.file].dir =
                                          IF atEnd THEN "none" ELSE "r"],
                      got |-> got]
             failed == [w |-> w, got |-> <<>>]
         IN  IF h.mode = "a" \/ total = 0 THEN {failed}
             ELSE IF h.dir = "w" THEN {done, failed}
             ELSE {done}

\* fwrite(buffer, size, nmemb, _file) of the bytes buf: the set of
\* [w, ok].  A stream opened "rb" cannot be written, one opened "a" writes
\* at the end whatever the position.  Output directly after input that did
\* not reach end of file is undefined: the write happens or it fails.
fwrite(w, buf) ==
    IF ~Live(w, w.file) THEN {[w |-> Touch(w), ok |-> FALSE]}
    ELSE LET h == w.handles[w.file]
             at == IF h.mode = "a" THEN Len(w.disk) ELSE h.pos
             done == [w |-> [w EXCEPT !.disk = StoreAt(@, at, buf),
                                      !.handles[w.file].pos = at + Len(buf),
                                      !.handles[w.file].dir = "w"],
                      ok |-> TRUE]
             failed == [w |-> w, ok |-> FALSE]
         IN  IF h.mode = "rb" \/ buf = <<>> THEN {failed}
             ELSE IF h.dir = "r" THEN {done, failed}
             ELSE {done}

(***************************************************************************)
(* FileStream                                                              *)
(***************************************************************************)

\* the mode the constructor opens the backend handle with
OpenModeFor(backend, fileMode) ==
    IF backend = "physfs"
    THEN CASE fileMode = FILE_MODE_OPEN -> "read"
           [] fileMode = FILE_MODE_WRITE -> "write"
           [] fileMode = FILE_MODE_APPEND -> "append"
    ELSE CASE fileMode = FILE_MODE_OPEN -> "rb"
           [] fileMode = FILE_MODE_WRITE -> "w+b"
           [] fileMode = FILE_MODE_APPEND -> "a"

\* _canRead as the constructor sets it
CanReadFor(fileMode) == fileMode = FILE_MODE_OPEN

\* _canWrite as the constructor sets it
CanWriteFor(fileMode) == fileMode # FILE_MODE_OPEN

CanRead(w) == w.canRead

CanWrite(w) == w.canWrite

GetLength(w) == w.fileSize

GetPosition(w) == ToU64(Tell(w))

\* Seek(int64_t offset, int32_t origin)
Seek(w, offset, origin) ==
    IF w.backend = "physfs"
    THEN CASE origin = STREAM_SEEK_BEGIN -> PHYSFS_seek(w, ToU64(offset))
           [] origin = STREAM_SEEK_CURRENT ->
                  PHYSFS_seek(Touch(w), ToU64(offset + Tell(w)))
           [] origin = STREAM_SEEK_END ->
                  PHYSFS_seek(Touch(w), ToU64(FileLength(w) - offset))
    ELSE fseeko64(w, offset, origin)

\* SetPosition(uint64_t position)
SetPosition(w, position) == Seek(w, ToS64(position), STREAM_SEEK_BEGIN)

\* the object as FileStream(path, fileMode) leaves it, over a resource
\* holding the bytes content before the call
Construct(backend, fileMode, content) ==
    LET w0 == [backend |-> backend, fileMode |-> fileMode, file |-> 0,
               canRead |-> FALSE, canWrite |-> FALSE, disposed |-> FALSE,
               ownsFilePtr |-> FALSE, fileSize |-> 0, disk |-> content,
               handles |-> <<>>, misuse |-> FALSE, pc |-> "alive"]
        w1 == [OpenHandle(w0, OpenModeFor(backend, fileMode))
                  EXCEPT !.canRead = CanReadFor(fileMode),
                         !.canWrite = CanWriteFor(fileMode)]
        w2 == Seek(w1, 0, STREAM_SEEK_END)
        w3 == [w2 EXCEPT !.fileSize = GetPosition(w2)]
        w4 == Seek(w3, 0, STREAM_SEEK_BEGIN)
    IN  [w4 EXCEPT !.ownsFilePtr = TRUE]

\* the outcome of a call: the object after it, whether it threw
\* IOException, the value returned, the bytes stored into the caller's buffer
Outcome(w, threw, ret, out) ==
    [w |-> w, threw |-> threw, ret |-> ret, out |-> out]

\* ReadReopen with the read handle never closed
ReadReopenLeak(w, length) ==
    LET w2 == OpenHandle(CloseHandle(w, w.file), "read")
        w3 == PHYSFS_seek(w2, ToU64(ToS32(Tell(w))))
        r == PHYSFS_readBytes(w3, length)
        w5 == OpenHandle(r.w, "write")
        w6 == PHYSFS_seek(w5, ToU64(ToS32(Tell(r.w))))
    IN  Outcome(w6, ~(r.ret > 0), 0, r.data)

\* Read in the PhysicsFS build with _canRead false: close the handle, open
\* the path for reading, read, close, open the path for writing
ReadReopen(w, length) ==
    LET previousPos == ToS32(Tell(Touch(w)))
        w1 == CloseHandle(Touch(w), w.file)
        w2 == OpenHandle(w1, "read")
        w3 == PHYSFS_seek(w2, ToU64(previousPos))
        r == PHYSFS_readBytes(w3, length)
        readSuccess == r.ret > 0
        previousPos2 == ToS32(Tell(r.w))
        w4 == CloseHandle(r.w, r.w.file)
        w5 == OpenHandle(w4, "write")
        w6 == PHYSFS_seek(w5, ToU64(previousPos2))
    IN  Outcome(w6, ~readSuccess, 0, r.data)

\* the test of Read: length <= remainingBytes, both uint64_t
FitsRemaining(w, length) == length <= ToU64(GetLength(w) - GetPosition(w))

\* Read(void* buffer, uint64_t length): the set of outcomes
Read(w, length) ==
    IF FitsRemaining(w, length)
    THEN IF w.backend = "physfs"
         THEN IF ~w.canRead
              THEN {ReadReopen(w, length)}
              ELSE LET r == PHYSFS_readBytes(w, length)
                   IN  {Outcome(r.w, ~(r.ret > 0), 0, r.data)}
         ELSE {Outcome(r.w, ~(length > 0 /\ Len(r.got) = length), 0, r.got) :
                  r \in fread(w, length)}
    ELSE {Outcome(w, TRUE, 0, <<>>)}

\* SizeAfterWrite without the std::max
SizeIsPosition(w) == GetPosition(w)

\* _fileSize after a successful write
SizeAfterWrite(w) == Max(w.fileSize, GetPosition(w))

\* Write(const void* buffer, uint64_t length): the set of outcomes
Write(w, buf) ==
    IF w.backend = "physfs"
    THEN LET r == PHYSFS_writeBytes(w, buf)
         IN  IF r.ret < 0 THEN {Outcome(r.w, TRUE, 0, <<>>)}
             ELSE {Outcome([r.w EXCEPT !.fileSize = SizeAfterWrite(r.w)],
                           FALSE, 0, <<>>)}
    ELSE {IF ~r.ok THEN Outcome(r.w, TRUE, 0, <<>>)
          ELSE Outcome([r.w EXCEPT !.fileSize = SizeAfterWrite(r.w)],
                       FALSE, 0, <<>>) :
             r \in fwrite(w, buf)}

\* TryRead(void* buffer, uint64_t length): the set of outcomes; the count
\* the backend returns is converted to size_t
TryRead(w, length) ==
    IF w.backend = "physfs"
    THEN LET r == PHYSFS_readBytes(w, length)
         IN  {Outcome(r.w, FALSE, ToU64(r.ret), r.data)}
    ELSE {Outcome(r.w, FALSE, ToU64(Len(r.got)), r.got) : r \in fread(w, length)}

\* ~FileStream()
Destroy(w) ==
    LET closed == IF w.backend = "physfs"
                  THEN [CloseHandle(w, w.file) EXCEPT !.disposed = TRUE]
                  ELSE IF ~w.disposed
                       THEN IF w.ownsFilePtr
                            THEN [CloseHandle(w, w.file) EXCEPT !.disposed = TRUE]
                            ELSE [w EXCEPT !.disposed = TRUE]
                       ELSE w
    IN  [closed EXCEPT !.pc = "destroyed"]

(***************************************************************************)
(* The calls a client makes on one FileStream.  fsLast records the last    *)
(* call: its name, its arguments (n the length, p the position, buf the    *)
(* bytes given) and its outcome (threw, ret, out).                         *)
(***************************************************************************)

InitContents == SeqsUpTo(Bytes, MaxInitLen)

Call(op, n, p, buf, threw, ret, out) ==
    [op |-> op, n |-> n, p |-> p, buf |-> buf,
     threw |-> threw, ret |-> ret, out |-> out]

NoCall == Call("none", 0, 0, <<>>, FALSE, 0, <<>>)

\* the bound on positions, stored bytes and handles opened
Capped(w) ==
    /\ Tell(w) <= MaxPos
    /\ Len(w.disk) <= MaxPos
    /\ Len(w.handles) <= MaxHandles

ZipIdle == [pc |-> "none"]

FsIdle == [pc |-> "none"]

WavIdle == [pc |-> "none"]

InitFS ==
    /\ \E b \in Backends, m \in FileModes, c \in InitContents :
          fs = Construct(b, m, c)
    /\ fsLast = NoCall
    /\ fsPeer = FsIdle
    /\ zip = ZipIdle
    /\ zipLast = ZipIdle
    /\ zipLog = <<>>
    /\ wav = WavIdle
    /\ wavLast = WavIdle

FsSeek ==
    \E offset \in -MaxOff .. MaxOff, origin \in Origins :
       LET w == Seek(fs, offset, origin)
       IN  /\ fs.pc = "alive"
           /\ Capped(w)
           /\ fs' = w
           /\ fsLast' = Call("Seek", 0, 0, <<>>, FALSE, 0, <<>>)
           /\ UNCHANGED <<fsPeer, zipVars, wavVars>>

FsSetPosition ==
    \E position \in (0 .. MaxPos) \cup {U64Max} :
       LET w == SetPosition(fs, position)
       IN  /\ fs.pc = "alive"
           /\ Capped(w)
           /\ fs' = w
           /\ fsLast' = Call("SetPosition", 0, 0, <<>>, FALSE, 0, <<>>)
           /\ UNCHANGED <<fsPeer, zipVars, wavVars>>

FsRead ==
    \E length \in 0 .. MaxLen :
       \E o \in Read(fs, length) :
          /\ fs.pc = "alive"
          /\ Capped(o.w)
          /\ fs' = o.w
          /\ fsLast' = Call("Read", length, 0, <<>>, o.threw, o.ret, o.out)
          /\ UNCHANGED <<fsPeer, zipVars, wavVars>>

FsWrite ==
    \E buf \in Buffers :
       \E o \in Write(fs, buf) :
          /\ fs.pc = "alive"
          /\ Capped(o.w)
          /\ fs' = o.w
          /\ fsLast' = Call("Write", Len(buf), 0, buf, o.threw, o.ret, o.out)
          /\ UNCHANGED <<fsPeer, zipVars, wavVars>>

FsTryRead ==
    \E length \in 0 .. MaxLen :
       \E o \in TryRead(fs, length) :
          /\ fs.pc = "alive"
          /\ Capped(o.w)
          /\ fs' = o.w
          /\ fsLast' = Call("TryRead", length, 0, <<>>, o.threw, o.ret, o.out)
          /\ UNCHANGED <<fsPeer, zipVars, wavVars>>

\* the client sequence SetPosition(p); Write(buf, n); SetPosition(p);
\* Read(out, n), which ends at the first call that throws
WriteReadBackOutcomes(w, p, buf) ==
    UNION { UNION { IF wr.threw THEN {Outcome(wr.w, TRUE, 0, <<>>)}
                    ELSE UNION { Read(w2, Len(buf)) : w2 \in {SetPosition(wr.w, p)} } :
                       wr \in Write(w1, buf) } :
               w1 \in {SetPosition(w, p)} }

FsWriteReadBack ==
    \E p \in 0 .. MaxPos, buf \in Buffers \ {<<>>} :
       \E o \in WriteReadBackOutcomes(fs, p, buf) :
          /\ fs.pc = "alive"
          /\ Capped(o.w)
          /\ fs' = o.w
          /\ fsLast' = Call("WriteReadBack", Len(buf), p, buf, o.threw, o.ret, o.out)
          /\ UNCHANGED <<fsPeer, zipVars, wavVars>>

FsDestroy ==
    /\ fs.pc = "alive"
    /\ fs' = Destroy(fs)
    /\ fsLast' = Call("Destroy", 0, 0, <<>>, FALSE, 0, <<>>)
    /\ UNCHANGED <<fsPeer, zipVars, wavVars>>

NextFS ==
    \/ FsSeek
    \/ FsSetPosition
    \/ FsRead
    \/ FsWrite
    \/ FsTryRead
    \/ FsWriteReadBack
    \/ FsDestroy

SpecFS == InitFS /\ [][NextFS]_vars

(***************************************************************************)
(* The two builds side by side: fs is a stream of the stdio build, fsPeer  *)
(* a stream of the PhysicsFS build, constructed with the same mode over    *)
(* resources of the same content, and every positioning call is made on    *)
(* both.  fsLast records the call (n the offset, buf the origin).          *)
(***************************************************************************)

InitSeekPair ==
    /\ \E m \in FileModes, c \in InitContents :
          /\ fs = Construct("stdio", m, c)
          /\ fsPeer = Construct("physfs", m, c)
    /\ fsLast = NoCall
    /\ zip = ZipIdle
    /\ zipLast = ZipIdle
    /\ zipLog = <<>>
    /\ wav = WavIdle
    /\ wavLast = WavIdle

PairSeek ==
    \E offset \in -MaxOff .. MaxOff, origin \in Origins :
       LET w == Seek(fs, offset, origin)
           v == Seek(fsPeer, offset, origin)
       IN  /\ Capped(w)
           /\ Capped(v)
           /\ fs' = w
           /\ fsPeer' = v
           /\ fsLast' = Call("Seek", offset, 0, <<origin>>, FALSE, 0, <<>>)
           /\ UNCHANGED <<zipVars, wavVars>>

PairSetPosition ==
    \E position \in (0 .. MaxPos) \cup {U64Max} :
       LET w == SetPosition(fs, position)
           v == SetPosition(fsPeer, position)
       IN  /\ Capped(w)
           /\ Capped(v)
           /\ fs' = w
           /\ fsPeer' = v
           /\ fsLast' = Call("SetPosition", 0, position, <<>>, FALSE, 0, <<>>)
           /\ UNCHANGED <<zipVars, wavVars>>

NextSeekPair ==
    \/ PairSeek
    \/ PairSetPosition

SpecSeekPair == InitSeekPair /\ [][NextSeekPair]_vars

(***************************************************************************)
(* ZipArchive over libzip.  A path is a sequence of characters.  zip is    *)
(* the archive object: access, the entry table libzip holds (one record    *)
(* [name, data, deleted, changed] per index; an index is never reused or   *)
(* renumbered while the archive is open), _writeBuffers, and readsChanged, *)
(* which says whether the libzip linked lets zip_fopen_index read an entry *)
(* whose data was set since the archive was opened (libzip before 1.10     *)
(* answers ZIP_ER_CHANGED).                                                *)
(***************************************************************************)

Slashes == {"/", "\\"}

\* the paths callers pass: the empty path, a plain name, and a/b with
\* either slash
ZipPaths ==
    {<<>>, <<"d">>} \cup { <<"a", s1, "b">> : s1 \in Slashes }

ZipDatas == {<<>>, <<1>>, <<2>>}

MaxSets == 1

Entry(name, data, changed) ==
    [name |-> name, data |-> data, deleted |-> FALSE, changed |-> changed]

\* the containers a ZipArchive is opened on
InitContainers ==
    { <<>>,
      <<Entry(<<"a", "/", "b">>, <<1>>, FALSE)>>,
      <<Entry(<<"a", "\\", "b">>, <<2>>, FALSE),
        Entry(<<"d">>, <<1>>, FALSE)>> }

\* NormalisePath: back slashes become forward slashes
NormalisePath(path) ==
    [i \in 1 .. Len(path) |-> IF path[i] = "\\" THEN "/" ELSE path[i]]

\* zip_get_num_entries(_zip, 0): deleted entries are counted
zip_get_num_entries(z) == Len(z.entries)

\* zip_get_name(_zip, i, ZIP_FL_ENC_GUESS) returns NULL for index i
\* (from 0): no such index, or the entry is deleted
NameIsNull(z, i) ==
    \/ i < 0
    \/ i >= Len(z.entries)
    \/ z.entries[i + 1].deleted

\* GetIndexFromPath: the set of results.  The loop hands every name to
\* NormalisePath without a null test; a string_view built from the NULL
\* name of a deleted entry is undefined: the call crashes or the name reads
\* as empty and the scan goes on.  A result is [crash, index].
GetIndexFromPath(z, path) ==
    LET normalisedPath == NormalisePath(path)
        numFiles == zip_get_num_entries(z)
        matches == { i \in 0 .. numFiles - 1 :
                        /\ ~NameIsNull(z, i)
                        /\ NormalisePath(z.entries[i + 1].name) = normalisedPath }
        found == IF matches = {} THEN -1
                 ELSE CHOOSE i \in matches : \A j \in matches : i <= j
        scanned == IF found = -1 THEN numFiles ELSE found
        nullSeen == \E i \in 0 .. scanned - 1 : NameIsNull(z, i)
    IN  IF normalisedPath = <<>> THEN {[crash |-> FALSE, index |-> -1]}
        ELSE {[crash |-> FALSE, index |-> found]}
                \cup (IF nullSeen THEN {[crash |-> TRUE, index |-> -1]} ELSE {})

\* GetNumFiles
GetNumFiles(z) == zip_get_num_entries(z)

\* GetFileSize(index): zip_stat_index fails on an index out of range (as
\* (size_t)-1 is) and on a deleted entry
GetFileSize(z, index) ==
    IF NameIsNull(z, index) THEN 0 ELSE Len(z.entries[index + 1].data)

\* zip_fopen_index(_zip, index, 0) gives a file (not NULL)
zip_fopen_index(z, index) ==
    /\ ~NameIsNull(z, index)
    /\ z.entries[index + 1].changed => z.readsChanged

ZOutcome(z, failed, ret) == [z |-> z, failed |-> failed, ret |-> ret]

Crashed(z) == ZOutcome([z EXCEPT !.pc = "crashed"], TRUE, <<>>)

\* GetFileData(path): the set of outcomes, ret the bytes returned
GetFileData(z, path) ==
    { IF r.crash THEN Crashed(z)
      ELSE LET index == r.index
               dataSize == GetFileSize(z, index)
           IN  IF dataSize > 0 /\ dataSize < U64Max /\ zip_fopen_index(z, index)
               THEN ZOutcome(z, FALSE, z.entries[index + 1].data)
               ELSE ZOutcome(z, FALSE, <<>>) :
         r \in GetIndexFromPath(z, path) }

\* zip_add(_zip, path, source): refused on a read-only archive and when an
\* entry of that very name exists
zip_add(z, path, data) ==
    IF \/ z.access = "READ"
       \/ \E i \in 1 .. Len(z.entries) :
             ~z.entries[i].deleted /\ z.entries[i].name = path
    THEN z
    ELSE [z EXCEPT !.entries = Append(@, Entry(path, data, TRUE))]

\* zip_replace(_zip, index, source)
zip_replace(z, index, data) ==
    IF z.access = "READ" \/ NameIsNull(z, index) THEN z
    ELSE [z EXCEPT !.entries[index + 1].data = data,
                   !.entries[index + 1].changed = TRUE]

\* zip_delete(_zip, index): the entry stays in the table, marked deleted
zip_delete(z, index) ==
    IF z.access = "READ" \/ NameIsNull(z, index) THEN z
    ELSE [z EXCEPT !.entries[index + 1] =
                       [name |-> <<>>, data |-> <<>>, deleted |-> TRUE,
                        changed |-> FALSE]]

\* zip_file_rename(_zip, index, newPath, ZIP_FL_ENC_GUESS): refused on a
\* read-only archive, for an empty name and for a name another entry has
zip_file_rename(z, index, newPath) ==
    IF \/ z.access = "READ"
       \/ NameIsNull(z, index)
       \/ newPath = <<>>
       \/ \E i \in 1 .. Len(z.entries) :
             /\ i # index + 1
             /\ ~z.entries[i].deleted
             /\ z.entries[i].name = newPath
    THEN z
    ELSE [z EXCEPT !.entries[index + 1].name = newPath]

\* SetFileData(path, data): the set of outcomes
SetFileData(z, path, data) ==
    LET z1 == [z EXCEPT !.writeBuffers = Append(@, data)]
    IN  { IF r.crash THEN Crashed(z1)
          ELSE IF r.index = -1 THEN ZOutcome(zip_add(z1, path, data), FALSE, <<>>)
          ELSE ZOutcome(zip_replace(z1, r.index, data), FALSE, <<>>) :
             r \in GetIndexFromPath(z1, path) }

\* a DeleteFile that releases the newest buffer of the pool
DeleteFileReleases(z, path) ==
    { IF r.crash THEN Crashed(z)
      ELSE ZOutcome([zip_delete(z, r.index) EXCEPT
                        !.writeBuffers = SubSeq(@, 1, Len(@) - 1)],
                    FALSE, <<>>) :
         r \in GetIndexFromPath(z, path) }

\* DeleteFile(path): the set of outcomes
DeleteFile(z, path) ==
    { IF r.crash THEN Crashed(z)
      ELSE ZOutcome(zip_delete(z, r.index), FALSE, <<>>) :
         r \in GetIndexFromPath(z, path) }

\* RenameFile(path, newPath): the set of outcomes
RenameFile(z, path, newPath) ==
    { IF r.crash THEN Crashed(z)
      ELSE ZOutcome(zip_file_rename(z, r.index, newPath), FALSE, <<>>) :
         r \in GetIndexFromPath(z, path) }

\* ZipArchive(path, access) on a container holding the entries given
ZipConstruct(access, readsChanged, container) ==
    [access |-> access, readsChanged |-> readsChanged, entries |-> container,
     writeBuffers |-> <<>>, pc |-> "open"]

\* a destructor that drops the changes (zip_discard) in place of zip_close
ZipDestroyDiscard(z) ==
    [z EXCEPT !.entries =
                 SelectSeq(z.entries, LAMBDA e : ~e.deleted /\ ~e.changed),
              !.pc = "destroyed"]

\* ~ZipArchive(): zip_close writes the entries that are not deleted
ZipDestroy(z) ==
    LET kept == { i \in 1 .. Len(z.entries) : ~z.entries[i].deleted }
        nth(k) == CHOOSE i \in kept : Cardinality({ j \in kept : j <= i }) = k
    IN  [z EXCEPT !.entries =
                     [k \in 1 .. Cardinality(kept) |->
                         [z.entries[nth(k)] EXCEPT !.changed = FALSE]],
                  !.pc = "destroyed"]

ZCall(op, path, newPath, data, failed, ret) ==
    [op |-> op, path |-> path, newPath |-> newPath, data |-> data,
     failed |-> failed, ret |-> ret]

ZNoCall == ZCall("none", <<>>, <<>>, <<>>, FALSE, <<>>)

InitZip ==
    /\ \E a \in {"READ", "WRITE"}, rc \in BOOLEAN, c \in InitContainers :
          zip = ZipConstruct(a, rc, c)
    /\ zipLast = ZNoCall
    /\ zipLog = <<>>
    /\ fs = FsIdle
    /\ fsLast = NoCall
    /\ fsPeer = FsIdle
    /\ wav = WavIdle
    /\ wavLast = WavIdle

ZipReadEntry ==
    \E path \in ZipPaths :
       \E o \in GetFileData(zip, path) :
          /\ zip.pc = "open"
          /\ zip' = o.z
          /\ zipLast' = ZCall("ReadEntry", path, <<>>, <<>>, o.failed, o.ret)
          /\ UNCHANGED <<zipLog, fsVars, wavVars>>

ZipSetEntry ==
    \E path \in ZipPaths, data \in ZipDatas :
       \E o \in SetFileData(zip, path, data) :
          /\ zip.pc = "open"
          /\ Len(zip.writeBuffers) < MaxSets
          /\ zip' = o.z
          /\ zipLast' = ZCall("SetEntry", path, <<>>, data, o.failed, o.ret)
          /\ UNCHANGED <<zipLog, fsVars, wavVars>>

ZipDeleteEntry ==
    \E path \in ZipPaths :
       \E o \in DeleteFile(zip, path) :
          /\ zip.pc = "open"
          /\ zip' = o.z
          /\ zipLast' = ZCall("DeleteEntry", path, <<>>, <<>>, o.failed, o.ret)
          /\ UNCHANGED <<zipLog, fsVars, wavVars>>

ZipRenameEntry ==
    \E path \in ZipPaths, newPath \in ZipPaths :
       \E o \in RenameFile(zip, path, newPath) :
          /\ zip.pc = "open"
          /\ zip' = o.z
          /\ zipLast' = ZCall("RenameEntry", path, newPath, <<>>, o.failed, o.ret)
          /\ UNCHANGED <<zipLog, fsVars, wavVars>>

ZipDestroyArchive ==
    /\ zip.pc = "open"
    /\ zip' = ZipDestroy(zip)
    /\ zipLast' = ZCall("Destroy", <<>>, <<>>, <<>>, FALSE, <<>>)
    /\ UNCHANGED <<zipLog, fsVars, wavVars>>

NextZip ==
    \/ ZipReadEntry
    \/ ZipSetEntry
    \/ ZipDeleteEntry
    \/ ZipRenameEntry
    \/ ZipDestroyArchive

SpecZip == InitZip /\ [][NextZip]_vars

(***************************************************************************)
(* The round trip: SetFileData calls on a handle opened with               *)
(* ZIP_ACCESS::WRITE on a path where no file is, ~ZipArchive, then         *)
(* ZipArchive(path, ZIP_ACCESS::READ) on what the first handle left.       *)
(* zipLog records the SetFileData calls made.                              *)
(***************************************************************************)

MaxWrites == 2

\* ZipArchive(path, ZIP_ACCESS::READ) on the container a destroyed handle
\* left.  zip_close writes no file for an archive without entries: the
\* plain build then finds no file and zip_open returns NULL (the
\* constructor throws); the PhysicsFS build finds the empty file its
\* PHYSFS_openWrite made, which libzip opens as an archive of no entries.
ZipReopen(z) ==
    IF z.entries = <<>>
    THEN { ZipConstruct("READ", z.readsChanged, <<>>),
           [ZipConstruct("READ", z.readsChanged, <<>>) EXCEPT !.pc = "openFailed"] }
    ELSE { ZipConstruct("READ", z.readsChanged, z.entries) }

InitZipRoundTrip ==
    /\ \E rc \in BOOLEAN : zip = ZipConstruct("WRITE", rc, <<>>)
    /\ zipLast = ZNoCall
    /\ zipLog = <<>>
    /\ fs = FsIdle
    /\ fsLast = NoCall
    /\ fsPeer = FsIdle
    /\ wav = WavIdle
    /\ wavLast = WavIdle

RtSetEntry ==
    \E path \in ZipPaths, data \in ZipDatas :
       \E o \in SetFileData(zip, path, data) :
          /\ zip.pc = "open"
          /\ zip.access = "WRITE"
          /\ Len(zipLog) < MaxWrites
          /\ zip' = o.z
          /\ zipLast' = ZCall("SetEntry", path, <<>>, data, o.failed, o.ret)
          /\ zipLog' = Append(zipLog, [path |-> path, data |-> data])
          /\ UNCHANGED <<fsVars, wavVars>>

RtReopen ==
    \E z \in ZipReopen(zip) :
       /\ zip.pc = "destroyed"
       /\ zip' = z
       /\ zipLast' = ZCall("Open", <<>>, <<>>, <<>>, z.pc = "openFailed", <<>>)
       /\ UNCHANGED <<zipLog, fsVars, wavVars>>

NextZipRoundTrip ==
    \/ RtSetEntry
    \/ ZipDestroyArchive
    \/ RtReopen
    \/ ZipReadEntry

SpecZipRoundTrip == InitZipRoundTrip /\ [][NextZipRoundTrip]_vars

(***************************************************************************)
(* FileAudioSource (platform/PhysFs.cpp), the ENABLE_PHYSFS build: the     *)
(* other build of the class does not compile (its seek names dataOffset).  *)
(* wav holds the file (disk), the handles opened on it, the source's       *)
(* fields (file is _rw, 0 for nullptr) and desc, the chunks the file was   *)
(* made of.  A file is a sequence of bytes 0 .. 255.                       *)
(***************************************************************************)

\* the width of the 64-bit integers of FileAudioSource in this model
WavBits == 10

MaxExtra == 2

MaxOffset == 3

MaxRead == 3

ToWavU64(x) == x % Pow2(WavBits)

ToWavS64(x) ==
    LET u == x % Pow2(WavBits)
    IN  IF u >= Pow2(WavBits - 1) THEN u - Pow2(WavBits) ELSE u

WavU64Max == Pow2(WavBits) - 1

\* little-endian encodings
Le16(n) == <<n % 256, (n \div 256) % 256>>

Le32(n) ==
    <<n % 256, (n \div 256) % 256, (n \div 65536) % 256, (n \div 16777216) % 256>>

FromLe16(b) == b[1] + 256 * b[2]

FromLe32(b) == b[1] + 256 * b[2] + 65536 * b[3] + 16777216 * b[4]

\* the chunk ids, as the 32-bit values readLE32 gives
DATA == 1635017060
FMT == 544501094
RIFF == 1179011410
WAVE == 1163280727
pcmformat == 1
FACT == 1952670054
LIST == 1414744396
BEXT == 1954047330
JUNK == 1263424842

\* ids the scan does not know: "cue ", and "RIFX" / "AVI " for the header
CUE == 543520099
RIFX == 1480984914
AVI == 541677121

\* a scan that also steps over "cue " chunks
SkippableAndCue == {FACT, LIST, BEXT, JUNK, CUE}

\* the ids FindChunk steps over
Skippable == {FACT, LIST, BEXT, JUNK}

AUDIO_U8 == "AUDIO_U8"
AUDIO_S16LSB == "AUDIO_S16LSB"

\* a chunk on file: id, declared size, payload, and the pad byte that
\* follows a payload of odd length
Chunk(id, payload) == [id |-> id, size |-> Len(payload), payload |-> payload]

ChunkBytes(c) ==
    Le32(c.id) \o Le32(c.size) \o c.payload
       \o (IF Len(c.payload) % 2 = 1 THEN <<0>> ELSE <<>>)

RECURSIVE ChunksBytes(_)
ChunksBytes(cs) ==
    IF cs = <<>> THEN <<>> ELSE ChunkBytes(Head(cs)) \o ChunksBytes(Tail(cs))

\* struct WaveFormat: encoding, channels, frequency, byterate, blockalign,
\* bitspersample (16 bytes), followed by extra bytes of a longer fmt chunk
WaveFormatBytes(encoding, bits, extra) ==
    Le16(encoding) \o Le16(1) \o Le32(22050) \o Le32(22050 * (bits \div 8))
       \o Le16(bits \div 8) \o Le16(bits) \o extra

FmtChunk(encoding, bits, extra) == Chunk(FMT, WaveFormatBytes(encoding, bits, extra))

\* the payload of the data chunk
Samples == <<11, 12>>

\* the bytes of a file with the two magic values and the chunks given
AllBytes(magic, form, chunks) ==
    LET body == Le32(form) \o ChunksBytes(chunks)
    IN  Le32(magic) \o Le32(Len(body)) \o body

\* a file described by desc: the first desc.keep bytes of AllBytes
FileBytes(desc) ==
    SubSeq(AllBytes(desc.magic, desc.form, desc.chunks), 1, desc.keep)

Desc(magic, form, chunks, keep) ==
    [magic |-> magic, form |-> form, chunks |-> chunks, keep |-> keep]

Whole(magic, form, chunks) ==
    Desc(magic, form, chunks, Len(AllBytes(magic, form, chunks)))

\* chunks put before the fmt chunk or between the fmt and the data chunk
ExtraChunks ==
    { Chunk(JUNK, <<>>), Chunk(LIST, <<7>>), Chunk(FACT, <<7, 7>>),
      Chunk(BEXT, <<7, 7>>), Chunk(CUE, <<7, 7>>) }

\* the files a source is loaded from:
\*   fmt chunks of every encoding, bit depth and length, with a data chunk
\*   that has samples, has none, or is absent; a LIST chunk after the data;
\*   wrong magic values; extra chunks before and after the fmt chunk; files
\*   cut short (empty, within the header, after the header, within a chunk
\*   header, after the fmt chunk, within the samples)
Descs ==
    LET fmts == { FmtChunk(e, b, x) : e \in {pcmformat, 3}, b \in {8, 16, 24},
                                      x \in {<<>>, <<0, 0>>} }
        datas == { <<Chunk(DATA, Samples)>>, <<Chunk(DATA, <<>>)>>, <<>>,
                   <<Chunk(DATA, Samples), Chunk(LIST, <<7, 7>>)>> }
        good == <<FmtChunk(pcmformat, 16, <<>>), Chunk(DATA, Samples)>>
    IN  { Whole(RIFF, WAVE, <<f>> \o d) : f \in fmts, d \in datas }
        \cup { Whole(RIFF, WAVE, d) : d \in datas }
        \cup { Whole(m[1], m[2], good) : m \in {<<RIFX, WAVE>>, <<RIFF, AVI>>} }
        \cup { Whole(RIFF, WAVE,
                     pre \o <<FmtChunk(pcmformat, b, <<>>)>> \o mid
                         \o <<Chunk(DATA, Samples)>>) :
                  pre \in SeqsUpTo(ExtraChunks, MaxExtra),
                  mid \in SeqsUpTo(ExtraChunks, 1),
                  b \in {8, 16} }
        \cup { Desc(RIFF, WAVE, good, k) : k \in {0, 2, 12, 16, 36, 44, 45} }

RW_SEEK_SET == "RW_SEEK_SET"
RW_SEEK_CUR == "RW_SEEK_CUR"

\* what a variable that was never assigned can hold: PHYSFS_readULE32
\* stores nothing when it cannot read four bytes, and readLE32 returns val
\* all the same.  The values are zero and the ids the scans look for.
GarbageWords == {0, FMT, DATA}

\* tell(rw): PHYSFS_tell
tell(w) == IF Live(w, w.file) THEN Tell(w) ELSE -1

\* seek(rw, offset, mode): [w, ret], ret what PHYSFS_seek returns (nonzero
\* if the position was set, 0 if not); a negative position is refused
seek(w, offset, mode) ==
    LET target == IF mode = RW_SEEK_CUR THEN tell(w) + offset ELSE offset
    IN  IF Live(w, w.file) /\ target >= 0
        THEN [w |-> [w EXCEPT !.handles[w.file].pos = target], ret |-> 1]
        ELSE [w |-> Touch(w), ret |-> 0]

\* read(rw, dst, bytesToRead): [w, ret, data], ret as a size_t
read(w, bytesToRead) ==
    LET r == PHYSFS_readBytes(w, bytesToRead)
    IN  [w |-> r.w, ret |-> ToWavU64(r.ret), data |-> r.data]

\* readLE32(rw): the set of [w, val]
readLE32(w) ==
    LET r == PHYSFS_readBytes(w, 4)
    IN  IF r.ret = 4 THEN {[w |-> r.w, val |-> FromLe32(r.data)]}
        ELSE {[w |-> r.w, val |-> g] : g \in GarbageWords}

\* the while loop of FindChunk, entered with the id and size just read
RECURSIVE FindChunkLoop(_, _, _, _)
FindChunkLoop(w, wantedId, subchunkId, subchunkSize) ==
    IF subchunkId = wantedId THEN {[w |-> w, size |-> subchunkSize]}
    ELSE IF subchunkId \in Skippable
    THEN UNION { UNION { FindChunkLoop(r2.w, wantedId, r1.val, r2.val) :
                            r2 \in readLE32(r1.w) } :
                    r1 \in readLE32(seek(w, subchunkSize, RW_SEEK_CUR).w) }
    ELSE {[w |-> w, size |-> 0]}

\* FindChunk(rw, wantedId): the set of [w, size], size 0 for not found
FindChunk(w, wantedId) ==
    UNION { UNION { FindChunkLoop(r2.w, wantedId, r1.val, r2.val) :
                       r2 \in readLE32(r1.w) } :
               r1 \in readLE32(w) }

\* Unload()
Unload(w) ==
    LET closed == IF w.file # 0 THEN [CloseHandle(w, w.file) EXCEPT !.file = 0]
                  ELSE w
    IN  [closed EXCEPT !.dataBegin = 0, !.dataLength = 0]

\* read(rw, &waveFormat, sizeof(waveFormat)): the set of [w, waveFormat];
\* a field the bytes read do not cover keeps what it held before
ReadWaveFormat(w) ==
    LET r == PHYSFS_readBytes(w, 16)
        n == Len(r.data)
        field(last, value, garbage) == IF n >= last THEN {value} ELSE garbage
    IN  { [w |-> r.w,
           waveFormat |-> [encoding |-> e, channels |-> c, frequency |-> f,
                           bitspersample |-> b]] :
             e \in field(2, FromLe16(SubSeq(r.data, 1, 2)), {0, pcmformat}),
             c \in field(4, FromLe16(SubSeq(r.data, 3, 4)), {0, 1}),
             f \in field(8, FromLe32(SubSeq(r.data, 5, 8)), {0, 22050}),
             b \in field(16, FromLe16(SubSeq(r.data, 15, 16)), {0, 16}) }

LoadResult(w, ok) == [w |-> w, ok |-> ok]

\* LoadWAV from the second FindChunk on
LoadData(w) ==
    { IF r.size = 0 THEN LoadResult(r.w, FALSE)
      ELSE LoadResult([r.w EXCEPT !.dataLength = ToWavU64(r.size),
                                  !.dataBegin = ToWavU64(tell(r.w))], TRUE) :
         r \in FindChunk(w, DATA) }

\* a switch that takes every bit depth other than 8 as 16-bit samples
SampleFormatLax(bitspersample) ==
    IF bitspersample = 8 THEN AUDIO_U8 ELSE AUDIO_S16LSB

\* switch (waveFormat.bitspersample): the sample format, "invalid" for the
\* default case
SampleFormat(bitspersample) ==
    CASE bitspersample = 8 -> AUDIO_U8
      [] bitspersample = 16 -> AUDIO_S16LSB
      [] OTHER -> "invalid"

\* LoadWAV from the first FindChunk to the format switch
LoadFormat(w) ==
    UNION { IF f.size = 0 THEN {LoadResult(f.w, FALSE)}
            ELSE LET chunkStart == tell(f.w)
                 IN  UNION { LET wf == r.waveFormat
                                 w1 == seek(r.w, chunkStart + f.size, RW_SEEK_SET).w
                                 fmt == SampleFormat(wf.bitspersample)
                             IN  IF wf.encoding # pcmformat
                                 THEN {LoadResult(w1, FALSE)}
                                 ELSE IF fmt = "invalid"
                                 THEN {LoadResult([w1 EXCEPT !.format.freq = wf.frequency],
                                                  FALSE)}
                                 ELSE LoadData([w1 EXCEPT !.format =
                                                   [freq |-> wf.frequency,
                                                    format |-> fmt,
                                                    channels |-> wf.channels]]) :
                                r \in ReadWaveFormat(f.w) } :
               f \in FindChunk(w, FMT) }

\* LoadWAV(rw): the set of [w, ok]; rw = 0 is nullptr
LoadWAV(w, rw) ==
    LET w0 == Unload(w)
        w1 == [w0 EXCEPT !.file = rw]
    IN  IF rw = 0 THEN {LoadResult(w0, FALSE)}
        ELSE UNION { IF r1.val # RIFF THEN {LoadResult(r1.w, FALSE)}
                     ELSE UNION { UNION { IF r3.val # WAVE
                                          THEN {LoadResult(r3.w, FALSE)}
                                          ELSE LoadFormat(r3.w) :
                                             r3 \in readLE32(r2.w) } :
                                     r2 \in readLE32(r1.w) } :
                        r1 \in readLE32(w1) }

\* ~FileAudioSource()
WavDestroy(w) == [Unload(w) EXCEPT !.pc = "destroyed"]

\* AudioSource::CreateStreamFromWAV(rw): the set of outcomes, pc "loaded"
\* when a source is returned and "absent" when nullptr is
CreateStreamFromWAV(w, rw) ==
    { IF r.ok THEN [r.w EXCEPT !.pc = "loaded"]
      ELSE [WavDestroy(r.w) EXCEPT !.pc = "absent"] :
         r \in LoadWAV(w, rw) }

\* FileAudioSource::GetLength / GetFormat
WavGetLength(w) == w.dataLength

GetFormat(w) == w.format

\* FileAudioSource::Read(dst, offset, len): [w, ret, data]
WavRead(w, offset, len) ==
    LET currentPosition == tell(w)
        bytesToRead == Min(len, ToWavU64(w.dataLength - offset))
        dataOffset == ToWavS64(w.dataBegin + offset)
        w1 == IF currentPosition # dataOffset
              THEN seek(w, dataOffset, RW_SEEK_SET).w
              ELSE w
    IN  IF currentPosition # -1 THEN read(w1, bytesToRead)
        ELSE [w |-> w, ret |-> 0, data |-> <<>>]

(***************************************************************************)
(* The calls made on one audio source.  The caller opens the file with     *)
(* PHYSFS_openRead (handle wav.rw, 0 if that failed) and hands it to       *)
(* CreateStreamFromWAV; on the source returned it calls Read, LoadWAV      *)
(* again with another handle or with nullptr, and delete.  wavLast records *)
(* the last call.                                                          *)
(***************************************************************************)

MaxReloads == 1

NoFormat == [freq |-> 0, format |-> "none", channels |-> 0]

WCall(op, offset, len, ok, ret, data) ==
    [op |-> op, offset |-> offset, len |-> len, ok |-> ok, ret |-> ret,
     data |-> data]

\* the caller's PHYSFS_openRead: a new handle at position 0
WavOpenRead(w) == [OpenHandle(w, "read") EXCEPT !.file = w.file]

\* before CreateStreamFromWAV: the file, and the handle opened on it
WavConstruct(desc, present) ==
    LET w == [pc |-> "opened", disk |-> FileBytes(desc), handles |-> <<>>,
              file |-> 0, misuse |-> FALSE, format |-> NoFormat,
              dataBegin |-> 0, dataLength |-> 0, desc |-> desc, rw |-> 0,
              reloads |-> 0]
    IN  IF present THEN [WavOpenRead(w) EXCEPT !.rw = 1] ELSE w

InitWav ==
    /\ \E desc \in Descs, present \in BOOLEAN :
          /\ present \/ desc.keep = 0
          /\ wav = WavConstruct(desc, present)
    /\ wavLast = WCall("none", 0, 0, FALSE, 0, <<>>)
    /\ fs = FsIdle
    /\ fsLast = NoCall
    /\ fsPeer = FsIdle
    /\ zip = ZipIdle
    /\ zipLast = ZipIdle
    /\ zipLog = <<>>

WavCreate ==
    \E w \in CreateStreamFromWAV(wav, wav.rw) :
       /\ wav.pc = "opened"
       /\ wav' = w
       /\ wavLast' = WCall("Create", 0, 0, w.pc = "loaded", 0, <<>>)
       /\ UNCHANGED <<fsVars, zipVars>>

WavReadSamples ==
    \E offset \in (0 .. MaxOffset) \cup {WavU64Max}, len \in 0 .. MaxRead :
       LET r == WavRead(wav, offset, len)
       IN  /\ wav.pc = "loaded"
           /\ wav' = r.w
           /\ wavLast' = WCall("Read", offset, len, TRUE, r.ret, r.data)
           /\ UNCHANGED <<fsVars, zipVars>>

\* LoadWAV on a source that exists, with a handle newly opened or nullptr
WavReload ==
    \E fresh \in BOOLEAN :
       LET w0 == [wav EXCEPT !.reloads = @ + 1]
           w1 == IF fresh THEN WavOpenRead(w0) ELSE w0
           rw == IF fresh THEN Len(w1.handles) ELSE 0
       IN  \E r \in LoadWAV(w1, rw) :
              /\ wav.pc \in {"loaded", "unloaded"}
              /\ wav.reloads < MaxReloads
              /\ wav' = [r.w EXCEPT !.pc = IF r.ok THEN "loaded" ELSE "unloaded",
                                    !.rw = rw]
              /\ wavLast' = WCall("LoadWAV", 0, 0, r.ok, 0, <<>>)
              /\ UNCHANGED <<fsVars, zipVars>>

WavDelete ==
    /\ wav.pc \in {"loaded", "unloaded"}
    /\ wav' = WavDestroy(wav)
    /\ wavLast' = WCall("delete", 0, 0, TRUE, 0, <<>>)
    /\ UNCHANGED <<fsVars, zipVars>>

NextWav ==
    \/ WavCreate
    \/ WavReadSamples
    \/ WavReload
    \/ WavDelete

SpecWav == InitWav /\ [][NextWav]_vars

(***************************************************************************)
(* FindChunk step by step: one action for the two reads and the first      *)
(* comparison, one for an iteration of the while loop, one for leaving the *)
(* loop.  wav is the reader's file and handle with the locals of FindChunk *)
(* (wantedId, subchunkId, subchunkSize), the value returned (ret) and      *)
(* stale, which tells that a readLE32 returned its unassigned val.         *)
(* wavLast records the last step, the position before it and whether the   *)
(* number of iterations made so far is odd.                                *)
(***************************************************************************)

\* the bound on the position from which an iteration is followed
MaxScanPos == 64

\* a declared size that points past the end of the file
FarSize == 100

\* what an unassigned val can hold: as GarbageWords, and the id of a chunk
\* the loop steps over
StaleWords == GarbageWords \cup {JUNK}

\* readLE32(rw) with the unassigned val drawn from StaleWords: the set of
\* [w, val, stale]
readLE32Stale(w) ==
    LET r == PHYSFS_readBytes(w, 4)
    IN  IF r.ret = 4
        THEN {[w |-> r.w, val |-> FromLe32(r.data), stale |-> FALSE]}
        ELSE {[w |-> r.w, val |-> g, stale |-> TRUE] : g \in StaleWords}

\* subchunkId = readLE32(rw); subchunkSize = readLE32(rw); and the
\* comparison with wantedId that follows
ReadIdAndSize(w) ==
    UNION { { LET found == r1.val = w.wantedId
              IN  [r2.w EXCEPT !.subchunkId = r1.val,
                               !.subchunkSize = r2.val,
                               !.stale = @ \/ r1.stale \/ r2.stale,
                               !.pc = IF found THEN "returned" ELSE "loop",
                               !.ret = IF found THEN r2.val ELSE 0] :
                 r2 \in readLE32Stale(r1.w) } :
               r1 \in readLE32Stale(w) }

\* the files the scan runs on: extra chunks before the fmt chunk, chunks
\* of size zero, a chunk whose declared size points past the end of the
\* file, and files that end within the header, or within or after the
\* header of a chunk
ScanDescs ==
    LET good == <<FmtChunk(pcmformat, 16, <<>>), Chunk(DATA, Samples)>>
        junks == <<Chunk(JUNK, <<>>), Chunk(JUNK, <<>>)>>
        far == [id |-> LIST, size |-> FarSize, payload |-> <<7, 7>>]
    IN  { Whole(RIFF, WAVE, pre \o good) : pre \in SeqsUpTo(ExtraChunks, MaxExtra) }
        \cup { Desc(RIFF, WAVE, good, k) : k \in {0, 2, 12, 16, 36, 44, 45} }
        \cup { Desc(RIFF, WAVE, junks \o good, k) : k \in {16, 18, 20, 24, 28} }
        \cup { Whole(RIFF, WAVE, junks \o good),
               Whole(RIFF, WAVE, <<far>> \o good), Whole(RIFF, WAVE, <<far>>) }

\* the reader when LoadWAV calls FindChunk(rw, wantedId): _rw is the
\* caller's handle and the header has been read
ScanConstruct(desc, wantedId) ==
    LET opened == WavConstruct(desc, TRUE)
        w == [opened EXCEPT !.file = opened.rw]
        r == PHYSFS_readBytes(w, 12)
    IN  [pc |-> "entered", disk |-> r.w.disk, handles |-> r.w.handles,
         file |-> r.w.file, misuse |-> r.w.misuse, desc |-> desc,
         wantedId |-> wantedId, subchunkId |-> 0, subchunkSize |-> 0,
         stale |-> FALSE, ret |-> 0]

ScanCall(op, pos, odd) == [op |-> op, pos |-> pos, odd |-> odd]

InitScan ==
    /\ \E desc \in ScanDescs, wantedId \in {FMT, DATA} :
          wav = ScanConstruct(desc, wantedId)
    /\ wavLast = ScanCall("none", 0, FALSE)
    /\ fs = FsIdle
    /\ fsLast = NoCall
    /\ fsPeer = FsIdle
    /\ zip = ZipIdle
    /\ zipLast = ZipIdle
    /\ zipLog = <<>>

\* lines 315-320
ScanEnter ==
    /\ wav.pc = "entered"
    /\ \E w \in ReadIdAndSize(wav) :
          /\ wav' = w
          /\ wavLast' = ScanCall("enter", tell(wav), FALSE)
    /\ UNCHANGED <<fsVars, zipVars>>

\* one iteration of the while loop, lines 325-334
ScanIterate ==
    /\ wav.pc = "loop"
    /\ wav.subchunkId \in Skippable
    /\ tell(wav) <= MaxScanPos
    /\ \E w \in ReadIdAndSize(seek(wav, wav.subchunkSize, RW_SEEK_CUR).w) :
          /\ wav' = w
          /\ wavLast' = ScanCall("iterate", tell(wav), ~wavLast.odd)
    /\ UNCHANGED <<fsVars, zipVars>>

\* the loop condition is false: return 0, line 335
ScanLeave ==
    /\ wav.pc = "loop"
    /\ wav.subchunkId \notin Skippable
    /\ wav' = [wav EXCEPT !.pc = "returned", !.ret = 0]
    /\ wavLast' = ScanCall("leave", tell(wav), wavLast.odd)
    /\ UNCHANGED <<fsVars, zipVars>>

NextScan ==
    \/ ScanEnter
    \/ ScanIterate
    \/ ScanLeave

SpecScan == InitScan /\ [][NextScan]_vars

\* the scan is not suspended: a step that can be taken is taken
SpecScanFair == SpecScan /\ WF_vars(NextScan)

(***************************************************************************)
(* Claims on FileStream                                                    *)
(***************************************************************************)

\* C1: on a Write-mode stream, SetPosition(p); Write(buf, n);
\* SetPosition(p); Read(out, n) with n >= 1 completes without error and
\* leaves out equal to buf, on both backends.  (Stated for the streams
\* opened read+write; an Append stream accepts writes too but is write-only.)
C1_WriteThenReadBack ==
    (fsLast.op = "WriteReadBack" /\ fs.fileMode = FILE_MODE_WRITE)
        => (~fsLast.threw /\ fsLast.out = fsLast.buf)

\* C2: on a Write-mode stream over PhysicsFS a successful Read(buffer, n)
\* at position q leaves Position() = q + n, Length() unchanged and the
\* stored bytes of the resource unchanged.
C2_ReopenUnobservable ==
    [][(/\ fs.backend = "physfs"
        /\ fs.fileMode = FILE_MODE_WRITE
        /\ fsLast'.op = "Read"
        /\ ~fsLast'.threw)
          => (/\ GetPosition(fs') = GetPosition(fs) + fsLast'.n
              /\ GetLength(fs') = GetLength(fs)
              /\ fs'.disk = fs.disk)]_vars

\* C3: Read(buffer, length) with length greater than the number of bytes
\* between Position() and Length() (none when the position is past the
\* length) throws and stores nothing into buffer.
C3_ReadPastEndFails ==
    [][(/\ fsLast'.op = "Read"
        /\ fsLast'.n > Max(0, GetLength(fs) - GetPosition(fs)))
          => (fsLast'.threw /\ fsLast'.out = <<>>)]_vars

\* C4: a successful Write sets Length() to max(previous Length(),
\* Position() after the write), a Write that throws leaves Length()
\* unchanged, and no call ever decreases Length().
C4_LengthTracksWrites ==
    [][/\ GetLength(fs') >= GetLength(fs)
       /\ (fsLast'.op = "Write" /\ ~fsLast'.threw)
             => GetLength(fs') = Max(GetLength(fs), GetPosition(fs'))
       /\ (fsLast'.op = "Write" /\ fsLast'.threw)
             => GetLength(fs') = GetLength(fs)]_vars

\* C4 witness: a successful Write that ended inside the file, after which
\* Length() is the previous length, not the position
C4_Witness ==
    /\ fsLast.op = "Write"
    /\ ~fsLast.threw
    /\ fsLast.n > 0
    /\ GetPosition(fs) < GetLength(fs)

\* C5: Open gives CanRead and not CanWrite, Write gives CanRead and
\* CanWrite, Append gives CanWrite and not CanRead, for the stream's life.
C5_CapabilityFlags ==
    /\ fs.fileMode = FILE_MODE_OPEN => (CanRead(fs) /\ ~CanWrite(fs))
    /\ fs.fileMode = FILE_MODE_WRITE => (CanRead(fs) /\ CanWrite(fs))
    /\ fs.fileMode = FILE_MODE_APPEND => (~CanRead(fs) /\ CanWrite(fs))

C7_TryReadCount ==
    fsLast.op = "TryRead"
        => (~fsLast.threw /\ fsLast.ret >= 0 /\ fsLast.ret <= fsLast.n)

\* C20: on a stream opened with FILE_MODE_OPEN, GetPosition() <=
\* GetLength() after any Seek, SetPosition, Read or TryRead.
C20_PositionWithinLength ==
    (/\ fs.fileMode = FILE_MODE_OPEN
     /\ fs.pc = "alive"
     /\ fsLast.op \in {"Seek", "SetPosition", "Read", "TryRead"})
       => GetPosition(fs) <= GetLength(fs)

\* C21: on a stream that can be read, Read(buffer, length) with
\* 0 <= length <= Length() - Position() does not throw, stores into buffer
\* the length bytes at the position and advances Position() by length; the
\* length 0 and a read that ends at Length() are included.
C21_ReadInRange ==
    [][(/\ fs.pc = "alive"
        /\ CanRead(fs)
        /\ fsLast'.op = "Read"
        /\ fsLast'.n <= GetLength(fs) - GetPosition(fs))
          => (/\ ~fsLast'.threw
              /\ fsLast'.out = BytesAt(fs.disk, GetPosition(fs), fsLast'.n)
              /\ Len(fsLast'.out) = fsLast'.n
              /\ GetPosition(fs') = GetPosition(fs) + fsLast'.n)]_vars

\* C22: streams of the two builds, over the same content, report the same
\* Position() after the same sequence of Seek(offset, origin) and
\* SetPosition calls, for the origins Begin, Current and End and offsets
\* of either sign.
C22_SeekEquivalent ==
    (fs.pc = "alive" /\ fsPeer.pc = "alive")
        => GetPosition(fs) = GetPosition(fsPeer)

(***************************************************************************)
(* Claims on ZipArchive                                                    *)
(***************************************************************************)

\* C8: on an archive opened for writing, SetEntry(p, data) with p not
\* empty followed by ReadEntry(p2), p2 being p with slashes of the other
\* kind, returns data; and after every call each path resolves (the lookup
\* returns) to the index its slash variants resolve to.
C8_SlashInsensitive ==
    [][/\ (/\ zip.access = "WRITE"
           /\ zipLast'.op = "SetEntry"
           /\ zipLast'.path # <<>>)
             => \A p2 \in ZipPaths :
                   NormalisePath(p2) = NormalisePath(zipLast'.path)
                      => \A o \in GetFileData(zip', p2) :
                            ~o.failed /\ o.ret = zipLast'.data
       /\ \A p \in ZipPaths, p2 \in ZipPaths :
             NormalisePath(p2) = NormalisePath(p)
                => /\ GetIndexFromPath(zip', p) = GetIndexFromPath(zip', p2)
                   /\ \A r \in GetIndexFromPath(zip', p) : ~r.crash]_vars

\* path matches no entry of the archive
C9_NoMatch(z, path) ==
    \/ path = <<>>
    \/ \A i \in 1 .. Len(z.entries) :
          z.entries[i].deleted
             \/ NormalisePath(z.entries[i].name) # NormalisePath(path)

\* C9: ReadEntry on a path that matches no entry (the empty path
\* included) returns no bytes, does not fail and leaves the entry table
\* as it was.
C9_ReadMissingEntry ==
    [][(zipLast'.op = "ReadEntry" /\ C9_NoMatch(zip, zipLast'.path))
          => (/\ ~zipLast'.failed
              /\ zipLast'.ret = <<>>
              /\ zip'.entries = zip.entries)]_vars

\* C10: after DeleteEntry(path) on an archive opened for writing in which
\* path resolves to an entry, EntryCount() is one less than before and
\* ReadEntry(path) returns no bytes.
C10_DeleteEntry ==
    [][(/\ zip.access = "WRITE"
        /\ zipLast'.op = "DeleteEntry"
        /\ \E r \in GetIndexFromPath(zip, zipLast'.path) :
              ~r.crash /\ r.index >= 0)
          => (/\ ~zipLast'.failed
              /\ GetNumFiles(zip') = GetNumFiles(zip) - 1
              /\ \A o \in GetFileData(zip', zipLast'.path) :
                    ~o.failed /\ o.ret = <<>>)]_vars

\* the logged SetEntry calls name entries: no path is empty and no two
\* paths are the same after normalisation
C11_DistinctNamed(log, named) ==
    /\ named => \A k \in 1 .. Len(log) : log[k].path # <<>>
    /\ \A j \in 1 .. Len(log), k \in 1 .. Len(log) :
          j # k => NormalisePath(log[j].path) # NormalisePath(log[k].path)

\* the read-only handle opened after the round trip shows the log
C11_ShowsLog ==
    /\ zip.pc = "open"
    /\ GetNumFiles(zip) = Len(zipLog)
    /\ \A k \in 1 .. Len(zipLog) :
          \A o \in GetFileData(zip, zipLog[k].path) :
             ~o.failed /\ o.ret = zipLog[k].data
    /\ (zipLast.op = "ReadEntry" /\ ~zipLast.failed)
          => \A k \in 1 .. Len(zipLog) :
                zipLog[k].path = zipLast.path => zipLast.ret = zipLog[k].data

ResolvedIndex(z, path) ==
    (CHOOSE r \in GetIndexFromPath(z, path) : ~r.crash).index

\* C12: SetEntry(path, bytes) on an archive opened for writing completes
\* and, when path resolves to no entry, adds exactly one entry, named path
\* as given and holding bytes; otherwise it replaces the data of the entry
\* at the resolved index and changes neither the number of entries nor any
\* name.  No other entry is changed in either case.
C12_SetEntryFrame ==
    [][(zip.access = "WRITE" /\ zipLast'.op = "SetEntry")
          => LET path == zipLast'.path
                 index == ResolvedIndex(zip, path)
                 n == Len(zip.entries)
             IN  /\ ~zipLast'.failed
                 /\ index = -1
                      => /\ GetNumFiles(zip') = GetNumFiles(zip) + 1
                         /\ zip'.entries[n + 1].name = path
                         /\ zip'.entries[n + 1].data = zipLast'.data
                         /\ ~zip'.entries[n + 1].deleted
                 /\ index # -1
                      => /\ GetNumFiles(zip') = GetNumFiles(zip)
                         /\ zip'.entries[index + 1].data = zipLast'.data
                 /\ \A i \in 1 .. n :
                       /\ zip'.entries[i].name = zip.entries[i].name
                       /\ zip'.entries[i].deleted = zip.entries[i].deleted
                       /\ i # index + 1
                            => zip'.entries[i].data = zip.entries[i].data]_vars

C14_RenameDeleteFrame ==
    [][(/\ zip.access = "WRITE"
        /\ zipLast'.op \in {"RenameEntry", "DeleteEntry"}
        /\ zipLast'.op = "RenameEntry"
              => /\ zipLast'.newPath # <<>>
                 /\ \A i \in 1 .. Len(zip.entries) :
                       zip.entries[i].name # zipLast'.newPath)
          => LET index == ResolvedIndex(zip, zipLast'.path)
             IN  /\ ~zipLast'.failed
                 /\ index = -1 => zip'.entries = zip.entries
                 /\ (index # -1 /\ zipLast'.op = "RenameEntry")
                      => zip'.entries =
                            [zip.entries EXCEPT
                                ![index + 1].name = zipLast'.newPath]]_vars

(***************************************************************************)
(* Claims on FileAudioSource                                               *)
(***************************************************************************)

\* the ids of the chunks the claims call skippable: fact, LIST, bext, JUNK
SkippableIds == {FACT, LIST, BEXT, JUNK}

\* the file is whole and starts RIFF, size, WAVE
WholeWave(desc) ==
    /\ desc.magic = RIFF
    /\ desc.form = WAVE
    /\ desc.keep = Len(AllBytes(desc.magic, desc.form, desc.chunks))

\* the sources CreateStreamFromWAV returns for the file of desc
Loaded(desc) ==
    { w \in CreateStreamFromWAV(WavConstruct(desc, TRUE), 1) : w.pc = "loaded" }

\* the bytes of the window [dataBegin, dataBegin + dataLength) of a source
Window(w) == SubSeq(w.disk, w.dataBegin + 1, w.dataBegin + w.dataLength)

\* desc without the chunks of a skippable id
C15_Base(desc) ==
    Whole(desc.magic, desc.form,
          SelectSeq(desc.chunks, LAMBDA c : c.id \notin SkippableIds))

\* desc is a whole file of a fmt chunk and a data chunk with samples, with
\* skippable chunks put before the data chunk
C15_Inserted(desc) ==
    LET base == C15_Base(desc).chunks
    IN  /\ WholeWave(desc)
        /\ Len(desc.chunks) > 2
        /\ Len(base) = 2
        /\ base[1].id = FMT
        /\ base[2].id = DATA
        /\ base[2].size > 0
        /\ desc.chunks[Len(desc.chunks)] = base[2]
        /\ Loaded(C15_Base(desc)) # {}

\* C15: a file made from a loadable file of a fmt and a data chunk by
\* putting fact, LIST, bext or JUNK chunks before the fmt chunk or between
\* the fmt and the data chunk loads, and the source has the format, the
\* data length and the bytes in its data window that the source loaded
\* from the file without those chunks has.
C15_SkippableTransparent ==
    (wavLast.op = "Create" /\ C15_Inserted(wav.desc))
       => /\ wav.pc = "loaded"
          /\ \A b \in Loaded(C15_Base(wav.desc)) :
                /\ GetFormat(wav) = GetFormat(b)
                /\ WavGetLength(wav) = WavGetLength(b)
                /\ Window(wav) = Window(b)

\* the index of the first chunk after index from with the id given,
\* Len(chunks) + 1 if there is none
FirstChunk(chunks, id, from) ==
    LET found == { i \in from + 1 .. Len(chunks) : chunks[i].id = id }
    IN  IF found = {} THEN Len(chunks) + 1
        ELSE CHOOSE i \in found : \A j \in found : i <= j

\* the chunks the two scans of a load pass before they meet the wanted
\* one: those before the first fmt chunk, and those between it and the
\* first data chunk after it
PassedByScans(chunks) ==
    LET fmtAt == FirstChunk(chunks, FMT, 0)
        dataAt == FirstChunk(chunks, DATA, fmtAt)
    IN  (1 .. fmtAt - 1) \cup (fmtAt + 1 .. dataAt - 1)

\* a chunk the scans pass has an id that is not skippable
C16_UnknownMet(chunks) ==
    \E i \in PassedByScans(chunks) :
       i <= Len(chunks) /\ chunks[i].id \notin SkippableIds

\* C16: on a whole RIFF/WAVE file, the load fails when a scan meets a
\* chunk whose id is neither the wanted one nor fact, LIST, bext or JUNK,
\* also when the wanted chunk comes later; a load that succeeds passed
\* skippable chunks only; and the scan for fmt stops right behind the
\* header of the first unknown chunk, returning 0.
C16_ScanStopsAtUnknown ==
    /\ (wavLast.op = "Create" /\ WholeWave(wav.desc))
          => /\ C16_UnknownMet(wav.desc.chunks) => wav.pc = "absent"
             /\ wav.pc = "loaded" => ~C16_UnknownMet(wav.desc.chunks)
    /\ (wav.pc = "opened" /\ wav.rw # 0 /\ WholeWave(wav.desc))
          => LET chunks == wav.desc.chunks
                 fmtAt == FirstChunk(chunks, FMT, 0)
                 unknown == { i \in 1 .. fmtAt - 1 :
                                 i <= Len(chunks) /\ chunks[i].id \notin SkippableIds }
                 first == CHOOSE i \in unknown : \A j \in unknown : i <= j
                 before == SubSeq(chunks, 1, first - 1)
                 start == seek([wav EXCEPT !.file = wav.rw], 12, RW_SEEK_SET).w
             IN  (/\ unknown # {}
                  /\ \A i \in 1 .. Len(before) : before[i].size % 2 = 0)
                    => \A r \in FindChunk(start, FMT) :
                          /\ r.size = 0
                          /\ tell(r.w) = 12 + Len(ChunksBytes(before)) + 8

C16_Witness ==
    /\ wavLast.op = "Create"
    /\ WholeWave(wav.desc)
    /\ wav.pc = "absent"
    /\ \E i \in 1 .. Len(wav.desc.chunks), j \in 1 .. Len(wav.desc.chunks) :
          /\ i > 1
          /\ i < j
          /\ wav.desc.chunks[i].id = CUE
          /\ wav.desc.chunks[j].id = FMT
          /\ \A k \in 1 .. i - 1 : wav.desc.chunks[k].id \in SkippableIds

\* desc is a whole RIFF/WAVE file of a fmt chunk followed by a data chunk
\* that has samples
C17_FmtData(desc) ==
    /\ WholeWave(desc)
    /\ Len(desc.chunks) >= 2
    /\ desc.chunks[1].id = FMT
    /\ desc.chunks[1].size >= 16
    /\ desc.chunks[2].id = DATA
    /\ desc.chunks[2].size > 0

\* C17: for a whole RIFF/WAVE file of a fmt and a data chunk, the load
\* returns a source exactly when the encoding is linear PCM and
\* bits-per-sample is 8 or 16, with format unsigned 8-bit for 8 and signed
\* 16-bit little-endian for 16; otherwise it returns no source.
C17_BitDepth ==
    (wavLast.op = "Create" /\ C17_FmtData(wav.desc))
       => LET fmt == wav.desc.chunks[1].payload
              encoding == FromLe16(SubSeq(fmt, 1, 2))
              bits == FromLe16(SubSeq(fmt, 15, 16))
          IN  /\ wav.pc \in {"loaded", "absent"}
              /\ wav.pc = "loaded" <=> (encoding = 1 /\ bits \in {8, 16})
              /\ (wav.pc = "loaded" /\ bits = 8) => GetFormat(wav).format = AUDIO_U8
              /\ (wav.pc = "loaded" /\ bits = 16)
                    => GetFormat(wav).format = AUDIO_S16LSB

C17_Witness ==
    /\ wavLast.op = "Create"
    /\ C17_FmtData(wav.desc)
    /\ FromLe16(SubSeq(wav.desc.chunks[1].payload, 1, 2)) = 1
    /\ FromLe16(SubSeq(wav.desc.chunks[1].payload, 15, 16)) = 24
    /\ wav.pc = "absent"

\* the source was loaded from a whole file and its window is the payload
\* of the file's data chunk
C18_LoadedData(w) ==
    /\ w.pc = "loaded"
    /\ WholeWave(w.desc)
    /\ \E i \in 1 .. Len(w.desc.chunks) :
          /\ w.desc.chunks[i].id = DATA
          /\ WavGetLength(w) = w.desc.chunks[i].size
          /\ Window(w) = w.desc.chunks[i].payload

\* C18: on a loaded source, Read(dst, offset, len) with offset + len >
\* dataLength returns dataLength - offset bytes (none when offset is past
\* the data), and they are the bytes of the data chunk from offset on.
C18_ReadClamped ==
    (/\ wavLast.op = "Read"
     /\ C18_LoadedData(wav)
     /\ wavLast.offset + wavLast.len > WavGetLength(wav))
       => /\ wavLast.ret = Max(0, WavGetLength(wav) - wavLast.offset)
          /\ wavLast.data = SubSeq(Window(wav), wavLast.offset + 1,
                                   WavGetLength(wav))

\* the chunks that lie in the file whole, for a file that ends with a
\* chunk (the empty sequence for any other file)
C19_Chunks(desc) ==
    LET fits == { k \in 0 .. Len(desc.chunks) :
                     12 + Len(ChunksBytes(SubSeq(desc.chunks, 1, k))) = desc.keep }
    IN  IF fits = {} THEN <<>>
        ELSE SubSeq(desc.chunks, 1, CHOOSE k \in fits : TRUE)

\* the anomalies: no source handle, a wrong RIFF or WAVE magic, no fmt
\* chunk, an encoding that is not PCM, a bit depth other than 8 and 16, no
\* data chunk or one of size zero
C19_Anomaly(w) ==
    LET chunks == C19_Chunks(w.desc)
        fmtAt == FirstChunk(chunks, FMT, 0)
        dataAt == FirstChunk(chunks, DATA, fmtAt)
        fmt == chunks[fmtAt].payload
    IN  \/ w.rw = 0
        \/ w.desc.keep >= 12 /\ (w.desc.magic # RIFF \/ w.desc.form # WAVE)
        \/ /\ w.desc.keep = 12 + Len(ChunksBytes(chunks))
           /\ \/ fmtAt > Len(chunks)
              \/ FromLe16(SubSeq(fmt, 1, 2)) # 1
              \/ FromLe16(SubSeq(fmt, 15, 16)) \notin {8, 16}
              \/ dataAt > Len(chunks)
              \/ chunks[dataAt].size = 0

\* C19: CreateStreamFromWAV on any of the anomalies returns no source and
\* leaves the handle it was given closed; no handle is ever closed twice
\* or used after its close; after LoadWAV on an existing source the handle
\* held before is closed and, if the load failed, data offset and length
\* are zero; after destruction every handle given is closed exactly once
\* and data offset and length are zero.
C19_AnomaliesAndUnload ==
    LET closedOnce(h) == wav.handles[h].closed = 1
    IN  /\ (wavLast.op = "Create" /\ C19_Anomaly(wav))
              => /\ wav.pc = "absent"
                 /\ \A h \in 1 .. Len(wav.handles) : closedOnce(h)
                 /\ wav.dataBegin = 0 /\ wav.dataLength = 0
        /\ wav.pc # "none"
              => /\ ~wav.misuse
                 /\ \A h \in 1 .. Len(wav.handles) : wav.handles[h].closed <= 1
        /\ wavLast.op = "LoadWAV"
              => /\ \A h \in 1 .. Len(wav.handles) : h # wav.file => closedOnce(h)
                 /\ ~wavLast.ok => wav.dataBegin = 0 /\ wav.dataLength = 0
        /\ wav.pc = "destroyed"
              => /\ \A h \in 1 .. Len(wav.handles) : closedOnce(h)
                 /\ wav.dataBegin = 0 /\ wav.dataLength = 0

\* C23: Read(dst, offset, len) on a loaded source, for every offset and
\* len (offset > dataLength included), returns no more than
\* max(0, dataLength - offset) bytes and reads them from positions of the
\* file within [dataBegin, dataBegin + dataLength).
C23_ReadWithinData ==
    (/\ wavLast.op = "Read"
     /\ C18_LoadedData(wav))
       => /\ wavLast.ret <= Max(0, WavGetLength(wav) - wavLast.offset)
          /\ wavLast.ret > 0
                => /\ tell(wav) - wavLast.ret >= wav.dataBegin
                   /\ tell(wav) <= wav.dataBegin + WavGetLength(wav)

\* an iteration of the loop of FindChunk left the position further on than
\* it found it
C24_IterationAdvances ==
    wavLast.op = "iterate" => tell(wav) > wavLast.pos

\* FindChunk has returned, or the scan has gone past the bound on positions
C24_Returned == wav.pc = "returned" \/ tell(wav) > MaxScanPos

\* C24: on every file (cut headers, skippable chunks of size zero, declared
\* sizes that point past the end) every iteration of the loop of FindChunk
\* strictly advances the position and FindChunk returns after finitely
\* many steps.
C24_ScanTerminates == []C24_IterationAdvances /\ <>C24_Returned

====
